---- MODULE Spec2Model ----
(***************************************************************************)
(* dry2-iaas: the project/environment configuration store (utils/config),  *)
(* the Terraform wrapper (utils/terraform) and the CLI commands that use   *)
(* them (commands/init, env, deploy, destroy, status), as a state machine  *)
(* over the on-disk tree .dry2/projects/<project>/<environment>/, the      *)
(* per-project config.yaml and the kubeconfig files under ~/.kube.         *)
(***************************************************************************)
EXTENDS Integers, Sequences, FiniteSets, TLC

VARIABLES
    projects_dir,   \* .dry2/projects: project name -> directory (or absent)
    kube,           \* ~/.kube: set of <<project, environment>> kubeconfig files
    last,           \* what the last command did: arguments, exit code, calls, output
    ncmd,           \* number of commands (or direct calls) run so far
    running         \* commands under way at the same time, each with its position

vars == <<projects_dir, kube, last, ncmd, running>>

-----------------------------------------------------------------------------
(* Bounds and input sets *)

MaxCommands == 3          \* commands per run of the tool chain
MaxUnitCalls == 2         \* calls per run of the store / wrapper API

ProjectNames == {"acme"}
CoreEnvs == {"dev", "production"}
CustomEnvs == {"staging"}
EnvNames == CoreEnvs \cup CustomEnvs
HiddenNames == {".github"}

-----------------------------------------------------------------------------
(* Python values.  A str is a sequence of dot-separated labels, so that    *)
(* f"{environment}.{base_domain}" is concatenation.                        *)

PyNone == [t |-> "none"]
PyBool(b) == [t |-> "bool", b |-> b]
PyStr(labels) == [t |-> "str", s |-> labels]
Str(word) == PyStr(<<word>>)
PyDict(f) == [t |-> "dict", d |-> f]
EmptyMap == [k \in {} |-> PyNone]
EmptyDict == PyDict(EmptyMap)

IsDict(v) == v.t = "dict"
HasKey(v, k) == IsDict(v) /\ k \in DOMAIN v.d
\* dict.get(k, default)
Get_no_placeholder(v, k, default) ==
    IF k \in DOMAIN v.d THEN v.d[k] ELSE IF default = Str("N/A") THEN Str("") ELSE default
Get(v, k, default) == IF k \in DOMAIN v.d THEN v.d[k] ELSE default
\* d[k] = x
SetItem(v, k, x) == PyDict([j \in DOMAIN v.d \cup {k} |-> IF j = k THEN x ELSE v.d[j]])
\* del d[k]
DelItem(v, k) == PyDict([j \in DOMAIN v.d \ {k} |-> v.d[j]])

-----------------------------------------------------------------------------
(* YAML: yaml.dump(config, f, default_flow_style=False) and yaml.safe_load *)

KeyOrder == <<"branch", "civo_token", "credentials", "database_url", "demo", "dev",
              "domains", "environments", "github_repo", "name", "null", "production",
              "profile", "region", "staging", "upstash_api_key", "upstash_email",
              "upstash_region">>
KeyRank(k) == CHOOSE i \in 1..Len(KeyOrder) : KeyOrder[i] = k

RECURSIVE SortKeys(_)
SortKeys(K) ==
    IF K = {} THEN <<>>
    ELSE LET m == CHOOSE k \in K : \A j \in K : KeyRank(k) <= KeyRank(j)
         IN  <<m>> \o SortKeys(K \ {m})

\* the implicit resolver of a plain scalar
NullTexts == {<<"null">>, <<"~">>, <<>>}
TrueTexts == {<<"true">>, <<"yes">>, <<"on">>}
FalseTexts == {<<"false">>, <<"no">>, <<"off">>}
resolve(text) ==
    IF text \in NullTexts THEN PyNone
    ELSE IF text \in TrueTexts THEN PyBool(TRUE)
    ELSE IF text \in FalseTexts THEN PyBool(FALSE)
    ELSE PyStr(text)

represent_str_plain(v) == [k |-> "scalar", style |-> "plain", text |-> v.s]
represent_str(v) ==
    [k |-> "scalar",
     style |-> IF resolve(v.s) = v THEN "plain" ELSE "single",
     text |-> v.s]

RECURSIVE represent(_)
represent(v) ==
    CASE v.t = "none" -> [k |-> "scalar", style |-> "plain", text |-> <<"null">>]
      [] v.t = "bool" -> [k |-> "scalar", style |-> "plain",
                          text |-> IF v.b THEN <<"true">> ELSE <<"false">>]
      [] v.t = "str"  -> represent_str(v)
      [] v.t = "dict" ->
            LET keys == SortKeys(DOMAIN v.d)
            IN  [k |-> "map",
                 items |-> [i \in 1..Len(keys) |->
                              <<represent(Str(keys[i])), represent(v.d[keys[i]])>>]]

yaml_dump(v) == <<represent(v)>>

RECURSIVE construct(_)
construct(node) ==
    CASE node.k = "scalar" ->
            IF node.style = "plain" THEN resolve(node.text) ELSE PyStr(node.text)
      [] node.k = "map" ->
            LET n == Len(node.items)
                keyOf(i) == construct(node.items[i][1]).s[1]
                lastIdx(key) == CHOOSE i \in 1..n :
                                    /\ keyOf(i) = key
                                    /\ \A j \in (i+1)..n : keyOf(j) # key
            IN  PyDict([key \in {keyOf(i) : i \in 1..n} |->
                          construct(node.items[lastIdx(key)][2])])

\* an empty stream loads as None
yaml_safe_load(stream) == IF stream = <<>> THEN PyNone ELSE construct(stream[1])

-----------------------------------------------------------------------------
(* The tree under .dry2/projects *)

NoProject == [exists |-> FALSE, entries |-> [n \in {} |-> 0]]
File(stream) == [is_dir |-> FALSE, files |-> {}, text |-> stream]
Dir(files) == [is_dir |-> TRUE, files |-> files, text |-> <<>>]

HasEntry(tree, p, n) == tree[p].exists /\ n \in DOMAIN tree[p].entries
IsDirEntry(tree, p, n) == HasEntry(tree, p, n) /\ tree[p].entries[n].is_dir
FilesOf(tree, p, n) == IF IsDirEntry(tree, p, n) THEN tree[p].entries[n].files ELSE {}
startswith_dot(n) == n \in HiddenNames

PutEntry(tree, p, n, e) ==
    [tree EXCEPT ![p] =
        [exists |-> TRUE,
         entries |-> [m \in DOMAIN tree[p].entries \cup {n} |->
                        IF m = n THEN e ELSE tree[p].entries[m]]]]
DropEntry_keep_dir(tree, p, n) == PutEntry(tree, p, n, Dir({}))
DropEntry(tree, p, n) ==
    [tree EXCEPT ![p].entries = [m \in DOMAIN tree[p].entries \ {n} |-> tree[p].entries[m]]]
\* mkdir(parents=True, exist_ok=True) of projects_dir/p
MkProjectDir(tree, p) ==
    IF tree[p].exists THEN tree ELSE [tree EXCEPT ![p] = [exists |-> TRUE, entries |-> [n \in {} |-> 0]]]
\* mkdir(parents=True, exist_ok=True) of projects_dir/p/n
MkEnvDir(tree, p, n) ==
    IF IsDirEntry(tree, p, n) THEN tree ELSE PutEntry(tree, p, n, Dir({}))
AddFiles(tree, p, n, fs) == PutEntry(tree, p, n, Dir(FilesOf(tree, p, n) \cup fs))
DelFiles(tree, p, n, fs) == PutEntry(tree, p, n, Dir(FilesOf(tree, p, n) \ fs))

-----------------------------------------------------------------------------
(* utils/config.py: class Config *)

Config_load_project_config(tree, p) ==
    IF HasEntry(tree, p, "config.yaml")
    THEN yaml_safe_load(tree[p].entries["config.yaml"].text)
    ELSE EmptyDict

Config_save_project_config_merge(tree, p, config) ==
    LET old == Config_load_project_config(tree, p)
        merged == IF IsDict(old) /\ IsDict(config)
                  THEN PyDict([k \in DOMAIN old.d \cup DOMAIN config.d |->
                                 IF k \in DOMAIN config.d THEN config.d[k] ELSE old.d[k]])
                  ELSE config
    IN  PutEntry(MkProjectDir(tree, p), p, "config.yaml", File(yaml_dump(merged)))
Config_save_project_config_keep_old(tree, p, config) ==
    LET old == Config_load_project_config(tree, p)
        both(k) == PyDict([e \in DOMAIN Get(old, k, EmptyDict).d \cup DOMAIN Get(config, k, EmptyDict).d |->
                             IF e \in DOMAIN Get(config, k, EmptyDict).d
                             THEN config.d[k].d[e] ELSE old.d[k].d[e]])
        merged == IF IsDict(old) /\ IsDict(config)
                  THEN PyDict([k \in DOMAIN config.d |->
                                 IF k \in {"environments", "domains"} THEN both(k) ELSE config.d[k]])
                  ELSE config
    IN  PutEntry(MkProjectDir(tree, p), p, "config.yaml", File(yaml_dump(merged)))
Config_save_project_config(tree, p, config) ==
    PutEntry(MkProjectDir(tree, p), p, "config.yaml", File(yaml_dump(config)))

Config_list_projects(tree) == {p \in DOMAIN tree : tree[p].exists}

Config_list_environments_nomarker(tree, p) ==
    IF ~tree[p].exists THEN {}
    ELSE {n \in DOMAIN tree[p].entries :
            tree[p].entries[n].is_dir /\ ~startswith_dot(n)}
Config_list_environments(tree, p) ==
    IF ~tree[p].exists THEN {}
    ELSE {n \in DOMAIN tree[p].entries :
            /\ tree[p].entries[n].is_dir
            /\ ~startswith_dot(n)
            /\ "main.tf" \in tree[p].entries[n].files}

\* (env_dir / "terraform.tfstate").exists()
has_state(tree, p, e) == "terraform.tfstate" \in FilesOf(tree, p, e)

-----------------------------------------------------------------------------
(* utils/config.py: NODE_SIZES, REGIONS *)

NODE_SIZES_with_huge == {"small", "medium", "large", "huge"}
NODE_SIZES == {"small", "medium", "large"}
REGIONS == [r \in {"NYC1"} |-> "us-east-1"]

-----------------------------------------------------------------------------
(* utils/terraform.py: class Terraform.  Each call is one run of the       *)
(* terraform executable; how that run ends is the environment's choice.    *)

ToolOutcomes == {"ok", "nonzero", "missing"}

\* Terraform.run(check=True): CalledProcessError becomes TerraformError;
\* a missing executable surfaces as subprocess's FileNotFoundError
Terraform_run(outcome) ==
    CASE outcome = "ok" -> "none"
      [] outcome = "nonzero" -> "TerraformError"
      [] outcome = "missing" -> "FileNotFoundError"

\* What a run of terraform leaves in its working directory.  With the local
\* backend, apply writes terraform.tfstate, and destroy rewrites it (empty)
\* keeping the previous one as a backup; a failed apply may or may not have
\* written state (state_written).  The wrapper itself writes nothing.
StateFiles_and_config ==
    {"terraform.tfstate", "terraform.tfstate.backup", ".terraform", ".terraform.lock.hcl", "main.tf"}
StateFiles == {"terraform.tfstate", "terraform.tfstate.backup", ".terraform", ".terraform.lock.hcl"}
terraform_effect(files, op, outcome, state_written) ==
    CASE op = "init" /\ outcome = "ok" -> files \cup {".terraform", ".terraform.lock.hcl"}
      [] op = "apply" /\ outcome = "ok" ->
            files \cup {"terraform.tfstate"}
                  \cup (IF "terraform.tfstate" \in files THEN {"terraform.tfstate.backup"} ELSE {})
      [] op = "apply" /\ outcome = "nonzero" ->
            IF state_written THEN files \cup {"terraform.tfstate"} ELSE files
      [] op = "plan -out" /\ outcome = "ok" -> files \cup {"tfplan"}
      [] op = "destroy" /\ outcome = "ok" ->
            IF state_written
            THEN files \cup {"terraform.tfstate", "terraform.tfstate.backup"}
            ELSE files \ {"terraform.tfstate"}
      [] OTHER -> files

RunTerraform(tree, p, e, op, outcome, state_written) ==
    PutEntry(tree, p, e, Dir(terraform_effect(FilesOf(tree, p, e), op, outcome, state_written)))

(* Terraform.output(json_format=True) and Terraform.get_outputs.  The      *)
(* stdout of "terraform output -json" is JSON text: well formed or not.    *)

JNull == [j |-> "null"]
JStr(s) == [j |-> "str", s |-> s]
JArr == [j |-> "arr"]
JObj(f) == [j |-> "obj", m |-> f]
Stdout(ok, v) == [wellformed |-> ok, value |-> v]

\* json.loads: raises JSONDecodeError on malformed text
json_loads(stdout) ==
    IF stdout.wellformed THEN [exc |-> "none", val |-> stdout.value]
    ELSE [exc |-> "JSONDecodeError", val |-> JNull]

Terraform_output_json(outcome, stdout) ==
    IF Terraform_run(outcome) # "none"
    THEN [exc |-> Terraform_run(outcome), val |-> JNull]
    ELSE json_loads(stdout)

\* {k: v["value"] for k, v in outputs.items()}
outputs_comprehension(outputs) ==
    IF outputs.j # "obj" THEN [exc |-> "AttributeError", val |-> EmptyMap]
    ELSE IF \E k \in DOMAIN outputs.m : outputs.m[k].j \in {"str", "arr", "null"}
    THEN [exc |-> "TypeError", val |-> EmptyMap]
    ELSE IF \E k \in DOMAIN outputs.m : "value" \notin DOMAIN outputs.m[k].m
    THEN [exc |-> "KeyError", val |-> EmptyMap]
    ELSE [exc |-> "none", val |-> [k \in DOMAIN outputs.m |-> outputs.m[k].m["value"]]]

\* try: ... except: return {}
Terraform_get_outputs_narrow(outcome, stdout) ==
    LET out == Terraform_output_json(outcome, stdout)
        res == IF out.exc # "none" THEN out ELSE outputs_comprehension(out.val)
    IN  IF res.exc = "TerraformError" THEN [exc |-> "none", val |-> EmptyMap] ELSE res
Terraform_get_outputs(outcome, stdout) ==
    LET out == Terraform_output_json(outcome, stdout)
        res == IF out.exc # "none" THEN out ELSE outputs_comprehension(out.val)
    IN  IF res.exc # "none" THEN [exc |-> "none", val |-> EmptyMap] ELSE res

-----------------------------------------------------------------------------
(* utils/templates.py *)

TemplateOrder == <<"main.tf", "variables.tf", "outputs.tf", "terraform.tfvars">>
\* the first template whose rendering raises on this installation, if any
TemplateFaults == {"none", "main.tf", "outputs.tf"}
TemplateIndex(name) == CHOOSE i \in 1..Len(TemplateOrder) : TemplateOrder[i] = name
Rendered(bad) ==
    IF bad = "none" THEN {TemplateOrder[i] : i \in 1..Len(TemplateOrder)}
    ELSE {TemplateOrder[i] : i \in 1..(TemplateIndex(bad) - 1)}

\* render_to_file four times, in order; the first failing render raises
create_terraform_files(tree, p, e, bad) ==
    [tree |-> IF Rendered(bad) = {} THEN tree ELSE AddFiles(tree, p, e, Rendered(bad)),
     exc |-> IF bad = "none" THEN "none" ELSE "TemplateError"]

create_helm_values(tree, p, e) == AddFiles(tree, p, e, {"values.yaml"})

-----------------------------------------------------------------------------
(* The record of a finished command *)

NoCalls == <<>>
NoShown == [e \in {} |-> 0]
\* what the operator passed and answered: the skip-confirmation flag
\* (--auto-approve, --force), the text typed at a prompt, the yes/no answer
Input(flag, typed, yes) == [flag |-> flag, typed |-> typed, yes |-> yes]
NoInput == Input(FALSE, "", FALSE)
Outcome(cmd, p, e, code, calls, shown, final) ==
    [cmd |-> cmd, project |-> p, env |-> e, code |-> code,
     calls |-> calls, shown |-> shown, final |-> final, keep_config |-> TRUE,
     input |-> NoInput, size |-> ""]

\* no command is under way next to the one being run
NoneRunning == <<>>

Done(o, tree, k) ==
    /\ projects_dir' = tree
    /\ kube' = k
    /\ last' = o
    /\ ncmd' = ncmd + 1
    /\ UNCHANGED running

Call(op, e, outcome) == [op |-> op, env |-> e, outcome |-> outcome]

deployed_status_wrong_file(tree, p, e) ==
    IF ".terraform" \in FilesOf(tree, p, e) THEN "Deployed" ELSE "Not deployed"
deployed_status(tree, p, e) == IF has_state(tree, p, e) THEN "Deployed" ELSE "Not deployed"

-----------------------------------------------------------------------------
(* commands/init.py: init_command *)

init_project_config_one_profile(p, prod_domain, dev_domain) ==
    PyDict([k \in {"name", "domains", "environments"} |->
        CASE k = "name" -> Str(p)
          [] k = "domains" ->
               PyDict([e \in {"production", "dev"} |->
                         IF e = "dev" THEN dev_domain ELSE prod_domain])
          [] k = "environments" ->
               PyDict([e \in {"production", "dev"} |->
                         PyDict([f \in {"branch", "profile"} |->
                            IF f = "branch" THEN Str("main") ELSE Str("small")])])])
init_project_config(p, prod_domain, dev_domain) ==
    PyDict([k \in {"name", "github_repo", "region", "upstash_region", "domains", "environments"} |->
        CASE k = "name" -> Str(p)
          [] k = "github_repo" -> PyStr(<<"org", p>>)
          [] k = "region" -> Str("NYC1")
          [] k = "upstash_region" -> Str(REGIONS["NYC1"])
          [] k = "domains" ->
               PyDict([e \in {"production", "dev"} |->
                         IF e = "dev" THEN dev_domain ELSE prod_domain])
          [] k = "environments" ->
               PyDict([e \in {"production", "dev"} |->
                         PyDict([f \in {"branch", "profile"} |->
                            IF e = "dev"
                            THEN (IF f = "branch" THEN Str("develop") ELSE Str("small"))
                            ELSE (IF f = "branch" THEN Str("main") ELSE Str("large"))])])])

\* one pass of "for env_name, env_config in [(dev, small), (production, large)]"
init_create_env(st, p, e, bad) ==
    IF st.exc # "none" THEN st
    ELSE LET made == create_terraform_files(MkEnvDir(st.tree, p, e), p, e, bad)
         IN  IF made.exc # "none" THEN made
             ELSE [tree |-> create_helm_values(made.tree, p, e), exc |-> "none"]

init_command(p) ==
    /\ ncmd < MaxCommands
    /\ \E overwrite \in (IF p \in Config_list_projects(projects_dir) THEN BOOLEAN ELSE {TRUE}),
            go \in BOOLEAN :
         IF ~overwrite \/ ~go
         THEN Done(Outcome("init", p, "", 0, NoCalls, NoShown, "cancelled"), projects_dir, kube)
         ELSE \E bad \in TemplateFaults :
              \E is_django_app \in (IF bad = "none" THEN BOOLEAN ELSE {FALSE}) :
              LET prod_domain == PyStr(<<p, "example", "com">>)
                  dev_domain == PyStr(<<"dev">> \o prod_domain.s)
                  t1 == Config_save_project_config(MkProjectDir(projects_dir, p), p,
                            init_project_config(p, prod_domain, dev_domain))
                  s1 == init_create_env([tree |-> t1, exc |-> "none"], p, "dev", bad)
                  s2 == init_create_env(s1, p, "production", bad)
                  t3 == PutEntry(s2.tree, p, ".github", Dir({"workflows"}))
                  t4 == PutEntry(s2.tree, p, "QUICK-REFERENCE.md", File(<<>>))
              IN  IF s2.exc # "none"
                  THEN Done(Outcome("init", p, "", 1, NoCalls, NoShown, s2.exc), s2.tree, kube)
                  ELSE IF ~is_django_app
                  \* shutil is bound only in the is_django_app branch
                  THEN Done(Outcome("init", p, "", 1, NoCalls, NoShown, "UnboundLocalError"), t3, kube)
                  ELSE Done(Outcome("init", p, "", 0, NoCalls, NoShown, "Setup Complete"), t4, kube)

-----------------------------------------------------------------------------
(* The init -> plan -> apply sequence of deploy infra and env add --deploy: *)
(* every way it can end.  asks: the operator is asked before apply.         *)

DeployRuns_apply_anyway(tree, p, e, asks) ==
    LET failed == ToolOutcomes \ {"ok"}
        c_init == Call("init", e, "ok")
        t_init == RunTerraform(tree, p, e, "init", "ok", FALSE)
    IN  {[tree |-> tree, calls |-> <<Call("init", e, o)>>,
          exc |-> Terraform_run(o), applied |-> FALSE, yes |-> FALSE] : o \in failed}
        \cup
        {[tree |-> RunTerraform(t_init, p, e, "apply", "ok", TRUE),
          calls |-> <<c_init, Call("plan", e, o), Call("apply", e, "ok")>>,
          exc |-> "none", applied |-> TRUE, yes |-> FALSE] : o \in ToolOutcomes}
DeployRuns(tree, p, e, asks) ==
    LET failed == ToolOutcomes \ {"ok"}
        c_init == Call("init", e, "ok")
        c_plan == Call("plan", e, "ok")
        t_init == RunTerraform(tree, p, e, "init", "ok", FALSE)
    IN  {[tree |-> tree, calls |-> <<Call("init", e, o)>>,
          exc |-> Terraform_run(o), applied |-> FALSE, yes |-> FALSE] : o \in failed}
        \cup
        {[tree |-> t_init, calls |-> <<c_init, Call("plan", e, o)>>,
          exc |-> Terraform_run(o), applied |-> FALSE, yes |-> FALSE] : o \in failed}
        \cup
        (IF asks
         THEN {[tree |-> t_init, calls |-> <<c_init, c_plan>>, exc |-> "none", applied |-> FALSE, yes |-> FALSE]}
         ELSE {})
        \cup
        {[tree |-> RunTerraform(t_init, p, e, "apply", o, w),
          calls |-> <<c_init, c_plan, Call("apply", e, o)>>,
          exc |-> Terraform_run(o), applied |-> FALSE, yes |-> asks] : o \in failed, w \in BOOLEAN}
        \cup
        {[tree |-> RunTerraform(t_init, p, e, "apply", "ok", TRUE),
          calls |-> <<c_init, c_plan, Call("apply", e, "ok")>>,
          exc |-> "none", applied |-> TRUE, yes |-> asks]}

\* stdout of "terraform output -json" as the commands meet it
KubeOutputs == JObj([k \in {"kubeconfig"} |-> JObj([v \in {"value"} |-> JStr("kubeconfig-text")])])
CommandStdouts == {Stdout(TRUE, KubeOutputs), Stdout(TRUE, JObj(EmptyMap)), Stdout(FALSE, JNull)}

-----------------------------------------------------------------------------
(* cli/dry2/commands/init.py: project, the variant of init that keeps the  *)
(* credentials in the record, can deploy dev and sets the GitHub secrets   *)

\* db_url: None when the database is skipped
DbUrls == {PyNone, Str("postgresql")}
\* gh: not installed; log-in fails; setting the first secret fails; all set
GitHubEnds == {"not installed", "login failed", "secret failed", "ok"}

project_project_config(p, prod_domain, dev_domain, db_url) ==
    SetItem(SetItem(init_project_config(p, prod_domain, dev_domain),
                    "credentials",
                    PyDict([k \in {"civo_token", "upstash_email", "upstash_api_key"} |-> Str(k)])),
            "database_url", db_url)

\* "Deploy dev environment now?": every way the answer and the run can end
project_deploy_dev(tree, p, k) ==
    {[tree |-> tree, calls |-> NoCalls, kube |-> k]}
    \cup
    UNION {IF ~r.applied
           THEN {[tree |-> r.tree, calls |-> r.calls, kube |-> k]}
           ELSE {[tree |-> r.tree, calls |-> Append(r.calls, Call("output", "dev", o)),
                  kube |-> IF "kubeconfig" \in DOMAIN Terraform_get_outputs(o, stdout).val
                           THEN k \cup {<<p, "dev">>} ELSE k] :
                    o \in ToolOutcomes, stdout \in {Stdout(TRUE, KubeOutputs), Stdout(FALSE, JNull)}} :
           r \in DeployRuns(tree, p, "dev", TRUE)}

project(p) ==
    /\ ncmd < MaxCommands
    /\ \E overwrite \in (IF p \in Config_list_projects(projects_dir) THEN BOOLEAN ELSE {TRUE}),
            credentials \in BOOLEAN, go \in BOOLEAN :
         IF ~overwrite
         THEN Done(Outcome("init project", p, "", 0, NoCalls, NoShown, "cancelled"), projects_dir, kube)
         ELSE IF ~credentials
         THEN Done(Outcome("init project", p, "", 1, NoCalls, NoShown, "All credentials are required"),
                   projects_dir, kube)
         ELSE IF ~go
         THEN Done(Outcome("init project", p, "", 0, NoCalls, NoShown, "cancelled"), projects_dir, kube)
         ELSE \E bad \in TemplateFaults, db_url \in DbUrls :
              LET prod_domain == PyStr(<<p, "example", "com">>)
                  dev_domain == PyStr(<<"dev">> \o prod_domain.s)
                  t1 == Config_save_project_config(MkProjectDir(projects_dir, p), p,
                            project_project_config(p, prod_domain, dev_domain, db_url))
                  s1 == init_create_env([tree |-> t1, exc |-> "none"], p, "dev", bad)
                  s2 == init_create_env(s1, p, "production", bad)
              IN  IF s2.exc # "none"
                  THEN Done(Outcome("init project", p, "", 1, NoCalls, NoShown, s2.exc), s2.tree, kube)
                  ELSE \E d \in project_deploy_dev(s2.tree, p, kube), gh \in GitHubEnds :
                       \E o \in (IF gh = "ok" THEN ToolOutcomes ELSE {"ok"}) :
                       LET t3 == PutEntry(d.tree, p, ".github", Dir({"workflows"}))
                           t4 == PutEntry(t3, p, "QUICK-REFERENCE.md", File(<<>>))
                           \* redis_url = tf.output("redis_url") for dev, then production
                           calls == IF gh = "ok"
                                    THEN d.calls \o <<Call("output", "dev", o), Call("output", "production", o)>>
                                    ELSE d.calls
                           github == [x \in {"github"} |-> gh]
                       IN  IF gh = "login failed"
                           THEN Done(Outcome("init project", p, "", 1, d.calls, github, "GitHubError"),
                                     t3, d.kube)
                           ELSE Done(Outcome("init project", p, "", 0, calls, github, "Setup Complete"),
                                     t4, d.kube)

-----------------------------------------------------------------------------
(* commands/env.py *)

SizeArgs == {"medium", "huge"}
\* --branch and --domain: both left out (prompted, defaults taken) or both given
AddArgs == {[branch |-> PyNone, domain |-> PyNone],
            [branch |-> Str("release"), domain |-> PyStr(<<"staging", "acme", "com">>)]}

environment_exists_in_record(tree, p, e) ==
    e \in DOMAIN Get(Config_load_project_config(tree, p), "environments", EmptyDict).d
environment_exists(tree, p, e) == e \in Config_list_environments(tree, p)

add_to_record_no_domain(project_config, e, branch, size, domain) ==
    LET c1 == IF "environments" \notin DOMAIN project_config.d
              THEN SetItem(project_config, "environments", EmptyDict) ELSE project_config
    IN  SetItem(c1, "environments",
            SetItem(c1.d["environments"], e,
                PyDict([f \in {"branch", "profile"} |-> IF f = "branch" THEN branch ELSE Str(size)])))
add_to_record_fresh(project_config, e, branch, size, domain) ==
    LET c2 == SetItem(project_config, "environments",
                  PyDict([x \in {e} |->
                      PyDict([f \in {"branch", "profile"} |-> IF f = "branch" THEN branch ELSE Str(size)])]))
        c3 == IF "domains" \notin DOMAIN c2.d THEN SetItem(c2, "domains", EmptyDict) ELSE c2
    IN  SetItem(c3, "domains", SetItem(c3.d["domains"], e, domain))
\* project_config["environments"][environment] = {...}; project_config["domains"][environment] = domain
add_to_record(project_config, e, branch, size, domain) ==
    LET c1 == IF "environments" \notin DOMAIN project_config.d
              THEN SetItem(project_config, "environments", EmptyDict) ELSE project_config
        c2 == SetItem(c1, "environments",
                  SetItem(c1.d["environments"], e,
                      PyDict([f \in {"branch", "profile"} |->
                                IF f = "branch" THEN branch ELSE Str(size)])))
        c3 == IF "domains" \notin DOMAIN c2.d THEN SetItem(c2, "domains", EmptyDict) ELSE c2
    IN  SetItem(c3, "domains", SetItem(c3.d["domains"], e, domain))

add_environment(p, e) ==
    /\ ncmd < MaxCommands
    /\ \E size \in SizeArgs :
        LET o(code, shown, final) ==
                [Outcome("env add", p, e, code, NoCalls, shown, final) EXCEPT !.size = size]
        IN
        IF p \notin Config_list_projects(projects_dir)
        THEN Done(o(1, NoShown, "Project not found"), projects_dir, kube)
        ELSE IF environment_exists(projects_dir, p, e)
        THEN Done(o(1, NoShown, "already exists"), projects_dir, kube)
        ELSE IF size \notin NODE_SIZES
        THEN Done(o(1, NoShown, "Invalid size"), projects_dir, kube)
        ELSE \E args \in AddArgs, confirm \in BOOLEAN :
          LET project_config == Config_load_project_config(projects_dir, p)
              branch_arg == args.branch
              domain_arg == args.domain
              branch == IF branch_arg = PyNone THEN Str(e) ELSE branch_arg
              base_domain == Get(Get(project_config, "domains", EmptyDict),
                                 "production", PyStr(<<"example", "com">>))
              domain == IF domain_arg = PyNone THEN PyStr(<<e>> \o base_domain.s) ELSE domain_arg
              t1 == MkEnvDir(projects_dir, p, e)
              listed == Config_list_environments(t1, p)
              \* "Size: ...", "Branch: ...", "Domain: ..."
              printed == [x \in {e} |-> [size |-> size, branch |-> branch, domain |-> domain]]
          IN  IF ~confirm
              THEN Done(o(0, printed, "cancelled"), projects_dir, kube)
              \* source_env = "dev" if "dev" in listed else listed[0]
              ELSE IF "dev" \notin listed /\ listed = {}
              THEN Done(o(1, printed, "IndexError"), t1, kube)
              ELSE \E bad \in TemplateFaults, deploy \in BOOLEAN :
                LET made == create_terraform_files(t1, p, e, bad)
                    t2 == create_helm_values(made.tree, p, e)
                    t3 == Config_save_project_config(t2, p,
                              add_to_record(project_config, e, branch, size, domain))
                    created == o(0, printed, "Environment created")
                IN  IF made.exc # "none"
                    THEN Done(o(1, printed, made.exc), made.tree, kube)
                    ELSE IF ~deploy
                    THEN Done(created, t3, kube)
                    ELSE \E r \in DeployRuns(t3, p, e, TRUE) :
                         IF ~r.applied
                         \* except Exception: "Deployment failed", then carry on
                         THEN Done([created EXCEPT !.calls = r.calls, !.input = Input(FALSE, "", r.yes)],
                                   r.tree, kube)
                         ELSE \E out \in ToolOutcomes, stdout \in CommandStdouts :
                              LET outputs == Terraform_get_outputs(out, stdout).val
                              IN  Done([created EXCEPT !.calls = Append(r.calls, Call("output", e, out)),
                                                       !.input = Input(FALSE, "", r.yes)],
                                       r.tree,
                                       IF "kubeconfig" \in DOMAIN outputs
                                       THEN kube \cup {<<p, e>>} ELSE kube)

is_core_environment_dev_only(e) == e \in {"dev"}
is_core_environment(e) == e \in {"dev", "production"}

\* if not force: if not Confirm.ask(...): raise typer.Exit(0)
remove_confirmed_force_only(force, confirm) == force
remove_confirmed(force, confirm) == force \/ confirm

\* del project_config["environments"][environment]; del project_config["domains"][environment]
remove_from_record(project_config, e) ==
    LET c1 == IF "environments" \in DOMAIN project_config.d /\ e \in DOMAIN project_config.d["environments"].d
              THEN SetItem(project_config, "environments", DelItem(project_config.d["environments"], e))
              ELSE project_config
    IN  IF "domains" \in DOMAIN c1.d /\ e \in DOMAIN c1.d["domains"].d
        THEN SetItem(c1, "domains", DelItem(c1.d["domains"], e))
        ELSE c1

remove_environment(p, e) ==
    /\ ncmd < MaxCommands
    /\ \E force \in BOOLEAN, confirm \in BOOLEAN :
        LET has_infra == [x \in {e} |-> [status |-> deployed_status(projects_dir, p, e)]]
            asked == [Outcome("env remove", p, e, 0, NoCalls, has_infra, "")
                         EXCEPT !.input = Input(force, "", confirm)]
            o(code, final) == IF final \in {"cancelled", "removed"}
                              THEN [asked EXCEPT !.code = code, !.final = final]
                              ELSE Outcome("env remove", p, e, code, NoCalls, NoShown, final)
            t1 == DropEntry(projects_dir, p, e)
            t2 == Config_save_project_config(t1, p,
                      remove_from_record(Config_load_project_config(t1, p), e))
        IN  IF e \notin Config_list_environments(projects_dir, p)
            THEN Done(o(1, "not found"), projects_dir, kube)
            ELSE IF is_core_environment(e)
            THEN Done(o(1, "Cannot remove core environment"), projects_dir, kube)
            ELSE IF ~remove_confirmed(force, confirm)
            THEN Done(o(0, "cancelled"), projects_dir, kube)
            ELSE Done(o(0, "removed"), t2, kube)

-----------------------------------------------------------------------------
(* commands/destroy.py *)

\* what one run of "terraform destroy" can do: fail either way, or succeed
\* leaving terraform.tfstate in place (the local backend) or not
DestroyEnds == {[outcome |-> "ok", state_written |-> TRUE],
                [outcome |-> "ok", state_written |-> FALSE],
                [outcome |-> "nonzero", state_written |-> TRUE],
                [outcome |-> "missing", state_written |-> TRUE]}

\* what the operator types at a typer.prompt
TypedInputs == {"destroy production", "production", "acme"}

nothing_deployed_never(tree, p, e) == FALSE
nothing_deployed(tree, p, e) == ~has_state(tree, p, e)

\* typed != "destroy production"
production_confirmed_by_name(typed) == typed \in {"destroy production", "production"}
production_confirmed(typed) == typed = "destroy production"

\* try: tf.destroy(...); remove the kubeconfig; unless keep_config remove the
\* state files; "Infrastructure destroyed" / except Exception: exit 1
destroy_and_clean_up_always(tree, k, p, e, end, keep_config) ==
    LET t1 == RunTerraform(tree, p, e, "destroy", end.outcome, end.state_written)
        t2 == IF keep_config THEN t1 ELSE DelFiles(t1, p, e, StateFiles)
    IN  IF Terraform_run(end.outcome) # "none"
        THEN [tree |-> t2, kube |-> k \ {<<p, e>>}, code |-> 1, final |-> "Destroy failed"]
        ELSE [tree |-> t2, kube |-> k \ {<<p, e>>}, code |-> 0, final |-> "Infrastructure destroyed"]
destroy_and_clean_up(tree, k, p, e, end, keep_config) ==
    LET t1 == RunTerraform(tree, p, e, "destroy", end.outcome, end.state_written)
        t2 == IF keep_config THEN t1 ELSE DelFiles(t1, p, e, StateFiles)
    IN  IF Terraform_run(end.outcome) # "none"
        THEN [tree |-> t1, kube |-> k, code |-> 1, final |-> "Destroy failed"]
        ELSE [tree |-> t2, kube |-> k \ {<<p, e>>}, code |-> 0, final |-> "Infrastructure destroyed"]

destroy_environment(p, e) ==
    /\ ncmd < MaxCommands
    /\ LET o(code, calls, final) == Outcome("destroy env", p, e, code, calls, NoShown, final)
       IN  IF p \notin Config_list_projects(projects_dir)
           THEN Done(o(1, NoCalls, "Project not found"), projects_dir, kube)
           ELSE IF e \notin Config_list_environments(projects_dir, p)
           THEN Done(o(1, NoCalls, "Environment not found"), projects_dir, kube)
           ELSE IF nothing_deployed(projects_dir, p, e)
           THEN Done(o(0, NoCalls, "No infrastructure deployed"), projects_dir, kube)
           ELSE \E auto_approve \in BOOLEAN :
                \E typed \in (IF ~auto_approve /\ e = "production" THEN TypedInputs ELSE {""}),
                   yes \in (IF ~auto_approve /\ e # "production" THEN BOOLEAN ELSE {FALSE}) :
                IF ~auto_approve /\ ~(IF e = "production" THEN production_confirmed(typed) ELSE yes)
                THEN Done([o(0, NoCalls, "Cancelled") EXCEPT !.input = Input(auto_approve, typed, yes)],
                          projects_dir, kube)
                ELSE \E end \in DestroyEnds, keep_config \in BOOLEAN :
                     LET r == destroy_and_clean_up(projects_dir, kube, p, e, end, keep_config)
                         calls == <<Call("destroy", e, end.outcome)>>
                     IN  Done([o(r.code, calls, r.final)
                                  EXCEPT !.keep_config = keep_config,
                                         !.input = Input(auto_approve, typed, yes)],
                              r.tree, r.kube)

Perms(S) == {q \in [1..Cardinality(S) -> S] : \A i, j \in 1..Cardinality(S) : q[i] = q[j] => i = j}

\* the body of "for env in environments" for one environment
destroy_one_stop_on_failure(st, p, e, end) ==
    IF st.failed THEN st
    ELSE IF ~has_state(st.tree, p, e)
    THEN [st EXCEPT !.log = Append(@, <<e, "skipped">>)]
    ELSE [tree |-> RunTerraform(st.tree, p, e, "destroy", end.outcome, end.state_written),
          calls |-> Append(st.calls, Call("destroy", e, end.outcome)),
          log |-> Append(st.log, <<e, IF Terraform_run(end.outcome) = "none"
                                      THEN "destroyed" ELSE "failed">>),
          failed |-> Terraform_run(end.outcome) # "none"]
destroy_one(st, p, e, end) ==
    IF ~has_state(st.tree, p, e)
    THEN [st EXCEPT !.log = Append(@, <<e, "skipped">>)]
    ELSE [tree |-> RunTerraform(st.tree, p, e, "destroy", end.outcome, end.state_written),
          calls |-> Append(st.calls, Call("destroy", e, end.outcome)),
          log |-> Append(st.log, <<e, IF Terraform_run(end.outcome) = "none"
                                      THEN "destroyed" ELSE "failed">>),
          failed |-> FALSE]

RECURSIVE destroy_each(_, _, _, _)
destroy_each(st, p, order, ends) ==
    IF order = <<>> THEN st
    ELSE destroy_each(destroy_one(st, p, Head(order), ends[Head(order)]), p, Tail(order), ends)

destroy_project(p) ==
    /\ ncmd < MaxCommands
    /\ LET environments == Config_list_environments(projects_dir, p)
           deployed == {e \in environments : has_state(projects_dir, p, e)}
           o(code, calls, shown, final) == Outcome("destroy project", p, "", code, calls, shown, final)
       IN  IF p \notin Config_list_projects(projects_dir)
           THEN Done(o(1, NoCalls, NoShown, "Project not found"), projects_dir, kube)
           ELSE \E auto_approve \in BOOLEAN :
                \E typed \in (IF auto_approve THEN {""} ELSE TypedInputs) :
                IF ~auto_approve /\ typed # p
                THEN Done(o(0, NoCalls, NoShown, "Cancelled"), projects_dir, kube)
                ELSE \E order \in Perms(environments),
                        ends \in [environments -> DestroyEnds] :
                     \* the end of a run that never starts is no choice
                     /\ \A e \in environments \ deployed : ends[e] = [outcome |-> "ok", state_written |-> TRUE]
                     /\ LET st == destroy_each([tree |-> projects_dir, calls |-> NoCalls,
                                                log |-> <<>>, failed |-> FALSE], p, order, ends)
                        IN  Done(o(0, st.calls, st.log, "Project infrastructure destroyed"),
                                 st.tree, kube)

-----------------------------------------------------------------------------
(* commands/deploy.py *)

deploy_infrastructure(p, e) ==
    /\ ncmd < MaxCommands
    /\ LET o(code, calls, final) == Outcome("deploy infra", p, e, code, calls, NoShown, final)
       IN  IF p \notin Config_list_projects(projects_dir)
           THEN Done(o(1, NoCalls, "Project not found"), projects_dir, kube)
           ELSE IF e \notin Config_list_environments(projects_dir, p)
           THEN Done(o(1, NoCalls, "Environment not found"), projects_dir, kube)
           ELSE \E auto_approve \in BOOLEAN :
                \E r \in DeployRuns(projects_dir, p, e, ~auto_approve) :
                   LET given == Input(auto_approve, "", r.yes)
                   IN
                   IF r.exc # "none"
                   THEN Done([o(1, r.calls, "Deployment failed") EXCEPT !.input = given], r.tree, kube)
                   ELSE IF ~r.applied
                   THEN Done([o(0, r.calls, "Deployment cancelled") EXCEPT !.input = given], r.tree, kube)
                   \* kubeconfig = tf.output("kubeconfig"), any failure passed over
                   ELSE \E out \in ToolOutcomes, text \in BOOLEAN :
                        Done([o(0, Append(r.calls, Call("output", e, out)), "Infrastructure deployed")
                                 EXCEPT !.input = given],
                             r.tree,
                             IF Terraform_run(out) = "none" /\ text
                             THEN kube \cup {<<p, e>>} ELSE kube)

\* tf.init() followed by one more step (validate, plan): every way it can end
InitThen_retry(tree, p, e, op) ==
    LET failed == ToolOutcomes \ {"ok"}
        c_init == Call("init", e, "ok")
        t_init == RunTerraform(tree, p, e, "init", "ok", FALSE)
    IN  {[tree |-> tree, calls |-> <<Call("init", e, o), Call("init", e, o)>>,
          exc |-> Terraform_run(o)] : o \in failed}
        \cup
        {[tree |-> RunTerraform(t_init, p, e, op, o, FALSE),
          calls |-> <<c_init, Call(op, e, o)>>, exc |-> Terraform_run(o)] : o \in ToolOutcomes}
InitThen(tree, p, e, op) ==
    LET failed == ToolOutcomes \ {"ok"}
        c_init == Call("init", e, "ok")
        t_init == RunTerraform(tree, p, e, "init", "ok", FALSE)
    IN  {[tree |-> tree, calls |-> <<Call("init", e, o)>>, exc |-> Terraform_run(o)] : o \in failed}
        \cup
        {[tree |-> RunTerraform(t_init, p, e, op, o, FALSE),
          calls |-> <<c_init, Call(op, e, o)>>, exc |-> Terraform_run(o)] : o \in ToolOutcomes}

validate_configuration(p, e) ==
    /\ ncmd < MaxCommands
    /\ LET o(code, calls, final) == Outcome("deploy validate", p, e, code, calls, NoShown, final)
       IN  IF e \notin Config_list_environments(projects_dir, p)
           THEN Done(o(1, NoCalls, "Environment not found"), projects_dir, kube)
           ELSE \E r \in InitThen(projects_dir, p, e, "validate") :
                   IF r.exc # "none"
                   THEN Done(o(1, r.calls, "Validation failed"), r.tree, kube)
                   ELSE Done(o(0, r.calls, "Configuration is valid"), r.tree, kube)

plan_infrastructure(p, e) ==
    /\ ncmd < MaxCommands
    /\ LET o(code, calls, final) == Outcome("deploy plan", p, e, code, calls, NoShown, final)
       IN  IF e \notin Config_list_environments(projects_dir, p)
           THEN Done(o(1, NoCalls, "Environment not found"), projects_dir, kube)
           ELSE \E save \in BOOLEAN :
                \E r \in InitThen(projects_dir, p, e, IF save THEN "plan -out" ELSE "plan") :
                   IF r.exc # "none"
                   THEN Done(o(1, r.calls, "Planning failed"), r.tree, kube)
                   ELSE Done(o(0, r.calls, IF save THEN "Plan saved" ELSE "plan"), r.tree, kube)

-----------------------------------------------------------------------------
(* commands/env.py (list, info) and commands/status.py *)

list_environments(p) ==
    /\ ncmd < MaxCommands
    /\ LET environments == Config_list_environments(projects_dir, p)
           project_config == Config_load_project_config(projects_dir, p)
           row(e) == [status |-> deployed_status(projects_dir, p, e),
                      domain |-> Get(Get(project_config, "domains", EmptyDict), e,
                                     PyStr(<<e, "example", "com">>))]
       IN  IF p \notin Config_list_projects(projects_dir)
           THEN Done(Outcome("env list", p, "", 1, NoCalls, NoShown, "Project not found"), projects_dir, kube)
           ELSE IF environments = {}
           THEN Done(Outcome("env list", p, "", 0, NoCalls, NoShown, "No environments found"), projects_dir, kube)
           ELSE Done(Outcome("env list", p, "", 0, NoCalls, [e \in environments |-> row(e)], "table"),
                     projects_dir, kube)

environment_info(p, e) ==
    /\ ncmd < MaxCommands
    /\ LET project_config == Config_load_project_config(projects_dir, p)
           env_config == Get(Get(project_config, "environments", EmptyDict), e, EmptyDict)
           row == [status |-> deployed_status(projects_dir, p, e),
                   branch |-> Get(env_config, "branch", Str("N/A")),
                   profile |-> Get(env_config, "profile", Str("N/A")),
                   domain |-> Get(Get(project_config, "domains", EmptyDict), e, Str("N/A"))]
           o(code, calls, shown, final) == Outcome("env info", p, e, code, calls, shown, final)
       IN  IF e \notin Config_list_environments(projects_dir, p)
           THEN Done(o(1, NoCalls, NoShown, "Environment not found"), projects_dir, kube)
           ELSE IF ~has_state(projects_dir, p, e)
           THEN Done(o(0, NoCalls, [x \in {e} |-> row], "table"), projects_dir, kube)
           ELSE \E out \in ToolOutcomes :
                Done(o(0, <<Call("output", e, out)>>, [x \in {e} |-> row], "table"), projects_dir, kube)

show_status(p) ==
    /\ ncmd < MaxCommands
    /\ LET environments == Config_list_environments(projects_dir, p)
           project_config == Config_load_project_config(projects_dir, p)
           row(e) == [status |-> deployed_status(projects_dir, p, e),
                      branch |-> Get(Get(Get(project_config, "environments", EmptyDict), e, EmptyDict),
                                     "branch", Str("N/A")),
                      domain |-> Get(Get(project_config, "domains", EmptyDict), e, Str("N/A"))]
       IN  IF p \notin Config_list_projects(projects_dir)
           THEN Done(Outcome("status project", p, "", 1, NoCalls, NoShown, "Project not found"), projects_dir, kube)
           ELSE Done(Outcome("status project", p, "", 0, NoCalls, [e \in environments |-> row(e)], "table"),
                     projects_dir, kube)

infrastructure_status(p, e) ==
    /\ ncmd < MaxCommands
    /\ LET o(code, calls, shown, final) == Outcome("status infra", p, e, code, calls, shown, final)
           row == [status |-> deployed_status(projects_dir, p, e)]
       IN  IF e \notin Config_list_environments(projects_dir, p)
           THEN Done(o(1, NoCalls, NoShown, "Environment not found"), projects_dir, kube)
           ELSE IF ~has_state(projects_dir, p, e)
           THEN Done(o(0, NoCalls, [x \in {e} |-> row], "Infrastructure not deployed yet"), projects_dir, kube)
           ELSE \E out \in ToolOutcomes, stdout \in CommandStdouts :
                Done(o(0, <<Call("output", e, out)>>, [x \in {e} |-> row],
                       IF Terraform_get_outputs(out, stdout).val = EmptyMap
                       THEN "No outputs available" ELSE "table"),
                     projects_dir, kube)

\* gh for status github: not installed; not logged in; "gh run list" fails; it works
GitHubStatusEnds == {"not installed", "not authenticated", "failed", "ok"}

github_status(p) ==
    /\ ncmd < MaxCommands
    /\ LET project_config == Config_load_project_config(projects_dir, p)
           o(code, final) == Outcome("status github", p, "", code, NoCalls, NoShown, final)
       IN  IF p \notin Config_list_projects(projects_dir)
           THEN Done(o(1, "Project not found"), projects_dir, kube)
           ELSE IF Get(project_config, "github_repo", PyNone) = PyNone
           THEN Done(o(0, "No GitHub repository configured"), projects_dir, kube)
           ELSE \E gh \in GitHubStatusEnds :
                Done(o(0, CASE gh = "not installed" -> "Install GitHub CLI"
                            [] gh = "not authenticated" -> "Authenticate with GitHub CLI"
                            [] gh = "failed" -> "Could not fetch workflow status"
                            [] gh = "ok" -> "Recent Deployments"),
                     projects_dir, kube)

list_projects ==
    /\ ncmd < MaxCommands
    /\ LET projects == Config_list_projects(projects_dir)
           row(p) == [environments |-> Cardinality(Config_list_environments(projects_dir, p)),
                      github |-> Get(Config_load_project_config(projects_dir, p), "github_repo", Str("N/A")),
                      region |-> Get(Config_load_project_config(projects_dir, p), "region", Str("N/A"))]
       IN  IF projects = {}
           THEN Done(Outcome("status list", "", "", 0, NoCalls, NoShown, "No projects found"),
                     projects_dir, kube)
           ELSE Done(Outcome("status list", "", "", 0, NoCalls, [p \in projects |-> row(p)], "table"),
                     projects_dir, kube)

-----------------------------------------------------------------------------
(* Outside the tool: terraform.tfstate appears in, or disappears from, an   *)
(* environment directory (a manual terraform run, a restore, a clean-up).   *)

state_file_changes(p, e) ==
    /\ IsDirEntry(projects_dir, p, e)
    /\ projects_dir' = IF has_state(projects_dir, p, e)
                       THEN DelFiles(projects_dir, p, e, {"terraform.tfstate"})
                       ELSE AddFiles(projects_dir, p, e, {"terraform.tfstate"})
    /\ last' = Outcome("outside", p, e, 0, NoCalls, NoShown, "")
    /\ UNCHANGED <<kube, ncmd, running>>

-----------------------------------------------------------------------------
(* The command-line tool: one command after another on one tree *)

Init ==
    /\ projects_dir = [p \in ProjectNames |-> NoProject]
    /\ kube = {}
    /\ last = Outcome("start", "", "", 0, NoCalls, NoShown, "")
    /\ ncmd = 0
    /\ running = NoneRunning

Next ==
    \/ \E p \in ProjectNames : init_command(p)
    \/ \E p \in ProjectNames, e \in EnvNames : add_environment(p, e)
    \/ \E p \in ProjectNames, e \in EnvNames : remove_environment(p, e)
    \/ \E p \in ProjectNames, e \in EnvNames : destroy_environment(p, e)
    \/ \E p \in ProjectNames : destroy_project(p)
    \/ \E p \in ProjectNames, e \in EnvNames : deploy_infrastructure(p, e)
    \/ \E p \in ProjectNames, e \in EnvNames : validate_configuration(p, e)
    \/ \E p \in ProjectNames, e \in EnvNames : plan_infrastructure(p, e)
    \/ \E p \in ProjectNames : list_environments(p)
    \/ \E p \in ProjectNames, e \in EnvNames : environment_info(p, e)
    \/ \E p \in ProjectNames : show_status(p)
    \/ \E p \in ProjectNames, e \in EnvNames : infrastructure_status(p, e)
    \/ \E p \in ProjectNames : github_status(p)
    \/ list_projects
    \/ \E p \in ProjectNames, e \in EnvNames : state_file_changes(p, e)

Spec == Init /\ [][Next]_vars

-----------------------------------------------------------------------------
(* Setting projects up: either variant of init, and a look at the result *)

NextSetup ==
    \/ \E p \in ProjectNames : init_command(p)
    \/ \E p \in ProjectNames : project(p)
    \/ \E p \in ProjectNames : list_environments(p)
    \/ \E p \in ProjectNames, e \in EnvNames : state_file_changes(p, e)

SpecSetup == Init /\ [][NextSetup]_vars

-----------------------------------------------------------------------------
(* The store and the wrapper called directly: Config.save_project_config,  *)
(* load_project_config, list_environments and Terraform.get_outputs on any *)
(* tree and any tool output.                                               *)

ApiProjects == {"acme", "beta"}

RecordSamples ==
    {EmptyDict,
     PyNone,
     PyDict([k \in {"name"} |-> Str("null")]),
     PyDict([k \in {"name", "domains"} |-> IF k = "name" THEN PyNone ELSE EmptyDict]),
     PyDict([k \in {"github_repo", "environments"} |->
               IF k = "github_repo" THEN PyStr(<<"org", "acme">>)
               ELSE PyDict([e \in {"staging", "dev"} |->
                              PyDict([f \in {"branch", "profile"} |->
                                        IF f = "branch" THEN Str("true") ELSE Str("medium")])])]),
     init_project_config("acme", PyStr(<<"acme", "example", "com">>), PyStr(<<"dev", "acme", "example", "com">>))}

\* a project directory: dev, staging and .github each absent or present in a
\* few shapes, config.yaml absent or holding one of the sample records
ApiProjectDirs ==
    {NoProject} \cup
    {[exists |-> TRUE,
      entries |-> [n \in (IF dev = {} THEN {} ELSE {"dev"}) \cup (IF staging = {} THEN {} ELSE {"staging"})
                         \cup (IF hidden THEN {".github"} ELSE {}) \cup (IF yaml = {} THEN {} ELSE {"config.yaml"}) |->
                     CASE n = "dev" -> Dir(CHOOSE x \in dev : TRUE)
                       [] n = "staging" -> Dir(CHOOSE x \in staging : TRUE)
                       [] n = ".github" -> Dir({"main.tf"})
                       [] n = "config.yaml" -> File(CHOOSE x \in yaml : TRUE)]] :
        dev \in {{}, {{}}, {{"main.tf"}}},
        staging \in {{}, {{"main.tf", "terraform.tfstate"}}},
        hidden \in BOOLEAN,
        yaml \in {{}, {<<>>}} \cup {{yaml_dump(r)} : r \in {RecordSamples_r \in RecordSamples :
                                        HasKey(RecordSamples_r, "environments")}}}

BetaDirs ==
    {NoProject,
     [exists |-> TRUE,
      entries |-> [n \in {"dev", "config.yaml"} |->
                     IF n = "dev" THEN Dir({"main.tf"})
                     ELSE File(yaml_dump(PyDict([k \in {"name"} |-> Str("beta")])))]]}

StdoutSamples ==
    CommandStdouts \cup
    {Stdout(TRUE, JArr),
     Stdout(TRUE, JObj([k \in {"url", "kubeconfig"} |->
                          IF k = "url" THEN JObj([v \in {"sensitive"} |-> JStr("false")])
                          ELSE JObj([v \in {"value"} |-> JStr("kubeconfig-text")])])),
     Stdout(TRUE, JObj([k \in {"url"} |-> JStr("https://acme.example.com")])),
     Stdout(TRUE, JObj([k \in {"url", "kubeconfig"} |->
                          JObj([v \in {"value", "sensitive"} |->
                                  IF v = "sensitive" THEN JStr("false") ELSE JStr(k)])]))}

ApiResult(cmd, p, arg, result) == [cmd |-> cmd, project |-> p, arg |-> arg, result |-> result]

api_save_project_config(p, r) ==
    /\ ncmd < MaxUnitCalls
    /\ projects_dir' = Config_save_project_config(projects_dir, p, r)
    /\ last' = ApiResult("save_project_config", p, r, Config_load_project_config(projects_dir, p))
    /\ ncmd' = ncmd + 1
    /\ UNCHANGED running
    /\ UNCHANGED kube

api_load_project_config(p) ==
    /\ ncmd < MaxUnitCalls
    /\ last' = ApiResult("load_project_config", p, PyNone, Config_load_project_config(projects_dir, p))
    /\ ncmd' = ncmd + 1
    /\ UNCHANGED running
    /\ UNCHANGED <<projects_dir, kube>>

api_list_environments(p) ==
    /\ ncmd < MaxUnitCalls
    /\ last' = ApiResult("list_environments", p, PyNone, Config_list_environments(projects_dir, p))
    /\ ncmd' = ncmd + 1
    /\ UNCHANGED running
    /\ UNCHANGED <<projects_dir, kube>>

api_run(outcome) ==
    /\ ncmd < MaxUnitCalls
    /\ last' = ApiResult("run", "", [outcome |-> outcome], Terraform_run(outcome))
    /\ ncmd' = ncmd + 1
    /\ UNCHANGED running
    /\ UNCHANGED <<projects_dir, kube>>

api_get_outputs(outcome, stdout) ==
    /\ ncmd < MaxUnitCalls
    /\ last' = ApiResult("get_outputs", "", [outcome |-> outcome, stdout |-> stdout],
                         Terraform_get_outputs(outcome, stdout))
    /\ ncmd' = ncmd + 1
    /\ UNCHANGED running
    /\ UNCHANGED <<projects_dir, kube>>

InitApi ==
    /\ projects_dir \in {[p \in ApiProjects |-> IF p = "acme" THEN a ELSE b] :
                            a \in ApiProjectDirs, b \in BetaDirs}
    /\ kube = {}
    /\ last = ApiResult("start", "", PyNone, PyNone)
    /\ ncmd = 0
    /\ running = NoneRunning

NextApi ==
    \/ \E p \in ApiProjects, r \in RecordSamples : api_save_project_config(p, r)
    \/ \E p \in ApiProjects : api_load_project_config(p)
    \/ \E p \in ApiProjects : api_list_environments(p)
    \/ \E outcome \in ToolOutcomes, stdout \in StdoutSamples : api_get_outputs(outcome, stdout)
    \/ \E outcome \in ToolOutcomes : api_run(outcome)

SpecApi == InitApi /\ [][NextApi]_vars

-----------------------------------------------------------------------------
(* Two commands at once on one project: env add / env remove of two        *)
(* different environments, each a separate process going through the lines *)
(* of its command; every read or write of the tree is one step.            *)

ConcEnvs == <<"staging", "demo">>
ConcOps == {"add", "remove"}
ConcProject == "acme"

\* a process: its command, its environment, where it is, the project_config
\* it holds, its exit code
Proc(op, e) == [op |-> op, env |-> e, pc |-> "check", project_config |-> PyNone, code |-> 0]
Exited(proc, code) == [proc EXCEPT !.pc = "done", !.code = code]

\* --branch and --domain as given on the command line of env add
ConcBranch(e) == Str(e)
ConcDomain(e) == PyStr(<<e, "acme", "com">>)

\* env add 74-88 / env remove 228-249 (--force): the checks
conc_check_step(tree, proc) ==
    LET p == ConcProject
        e == proc.env
    IN  IF proc.op = "add"
        THEN IF p \notin Config_list_projects(tree) \/ environment_exists(tree, p, e)
             THEN [tree |-> tree, proc |-> Exited(proc, 1)]
             ELSE [tree |-> tree, proc |-> [proc EXCEPT !.pc = "load"]]
        ELSE IF e \notin Config_list_environments(tree, p) \/ is_core_environment(e)
             THEN [tree |-> tree, proc |-> Exited(proc, 1)]
             ELSE [tree |-> tree, proc |-> [proc EXCEPT !.pc = "rmtree"]]

\* env add 96 / env remove 256: project_config = config.load_project_config(...);
\* in env remove the "in" tests that follow raise on None
conc_load_step(tree, proc) ==
    LET project_config == Config_load_project_config(tree, ConcProject)
    IN  IF proc.op = "add"
        THEN [tree |-> tree,
              proc |-> [proc EXCEPT !.pc = "create", !.project_config = project_config]]
        ELSE IF ~IsDict(project_config)
        THEN [tree |-> tree, proc |-> Exited(proc, 1)]
        ELSE [tree |-> tree,
              proc |-> [proc EXCEPT !.pc = "save_open",
                                    !.project_config = remove_from_record(project_config, proc.env)]]

\* env add 118-176 up to the call of save_project_config: mkdir, the second
\* load (source_config.get raises on None), the files, the record entry
conc_create_step(tree, proc) ==
    LET p == ConcProject
        e == proc.env
        t1 == MkEnvDir(tree, p, e)
        listed == Config_list_environments(t1, p)
        source_config == Config_load_project_config(t1, p)
        made == create_terraform_files(t1, p, e, "none")
        t2 == create_helm_values(made.tree, p, e)
    IN  IF listed = {} \/ ~IsDict(source_config) \/ ~IsDict(proc.project_config)
        THEN [tree |-> t1, proc |-> Exited(proc, 1)]
        ELSE [tree |-> t2,
              proc |-> [proc EXCEPT !.pc = "save_open",
                                    !.project_config =
                                        add_to_record(proc.project_config, e, ConcBranch(e),
                                                      "medium", ConcDomain(e))]]

\* env remove 252-253: shutil.rmtree(env_dir)
conc_rmtree_step(tree, proc) ==
    IF ~IsDirEntry(tree, ConcProject, proc.env)
    THEN [tree |-> tree, proc |-> Exited(proc, 1)]
    ELSE [tree |-> DropEntry(tree, ConcProject, proc.env), proc |-> [proc EXCEPT !.pc = "load"]]

\* save_project_config, config.py 46: open(config_file, "w") empties the file
conc_save_open_step(tree, proc) ==
    [tree |-> PutEntry(MkProjectDir(tree, ConcProject), ConcProject, "config.yaml", File(<<>>)),
     proc |-> [proc EXCEPT !.pc = "save_dump"]]

\* save_project_config, config.py 47: yaml.dump(config, f)
conc_save_dump_step(tree, proc) ==
    [tree |-> Config_save_project_config(tree, ConcProject, proc.project_config),
     proc |-> Exited(proc, 0)]

conc_step(tree, proc) ==
    CASE proc.pc = "check" -> conc_check_step(tree, proc)
      [] proc.pc = "load" -> conc_load_step(tree, proc)
      [] proc.pc = "create" -> conc_create_step(tree, proc)
      [] proc.pc = "rmtree" -> conc_rmtree_step(tree, proc)
      [] proc.pc = "save_open" -> conc_save_open_step(tree, proc)
      [] proc.pc = "save_dump" -> conc_save_dump_step(tree, proc)

\* one command run alone, from its first line to its exit
RECURSIVE conc_run(_, _)
conc_run(tree, proc) ==
    IF proc.pc = "done" THEN tree
    ELSE conc_run(conc_step(tree, proc).tree, conc_step(tree, proc).proc)

\* the tree after "dry2 init acme" went through
ConcInitTree ==
    LET p == ConcProject
        prod_domain == PyStr(<<p, "example", "com">>)
        dev_domain == PyStr(<<"dev">> \o prod_domain.s)
        t0 == (p :> NoProject)
        t1 == Config_save_project_config(MkProjectDir(t0, p), p,
                  init_project_config(p, prod_domain, dev_domain))
        s1 == init_create_env([tree |-> t1, exc |-> "none"], p, "dev", "none")
        s2 == init_create_env(s1, p, "production", "none")
    IN  PutEntry(s2.tree, p, "QUICK-REFERENCE.md", File(<<>>))

\* ... and after env add of some of the two environments, one at a time
ConcStartTrees ==
    LET plus(t, i) == conc_run(t, Proc("add", ConcEnvs[i]))
    IN  {ConcInitTree, plus(ConcInitTree, 1), plus(ConcInitTree, 2),
         plus(plus(ConcInitTree, 1), 2)}

\* the process takes the step it is at
conc_advance(i) ==
    LET r == conc_step(projects_dir, running.procs[i])
    IN  /\ projects_dir' = r.tree
        /\ running' = [running EXCEPT !.procs[i] = r.proc]
        /\ UNCHANGED <<kube, last, ncmd>>

conc_check(i) ==
    /\ running.procs[i].pc = "check"
    /\ conc_advance(i)
conc_load(i) ==
    /\ running.procs[i].pc = "load"
    /\ conc_advance(i)
conc_create(i) ==
    /\ running.procs[i].pc = "create"
    /\ conc_advance(i)
conc_rmtree(i) ==
    /\ running.procs[i].pc = "rmtree"
    /\ conc_advance(i)
conc_save_open(i) ==
    /\ running.procs[i].pc = "save_open"
    /\ conc_advance(i)
conc_save_dump(i) ==
    /\ running.procs[i].pc = "save_dump"
    /\ conc_advance(i)

InitConc ==
    /\ projects_dir \in ConcStartTrees
    /\ kube = {}
    /\ last = Outcome("start", "", "", 0, NoCalls, NoShown, "")
    /\ ncmd = 0
    /\ \E op1 \in ConcOps, op2 \in ConcOps :
          running = [start |-> projects_dir,
                     procs |-> <<Proc(op1, ConcEnvs[1]), Proc(op2, ConcEnvs[2])>>]

NextConc ==
    \/ \E i \in 1..2 : conc_check(i)
    \/ \E i \in 1..2 : conc_load(i)
    \/ \E i \in 1..2 : conc_create(i)
    \/ \E i \in 1..2 : conc_rmtree(i)
    \/ \E i \in 1..2 : conc_save_open(i)
    \/ \E i \in 1..2 : conc_save_dump(i)

SpecConc == InitConc /\ [][NextConc]_vars

-----------------------------------------------------------------------------
(* Properties *)

RanDestroyCalls(calls, e) == Cardinality({i \in 1..Len(calls) : calls[i].op = "destroy" /\ calls[i].env = e})

\* C1: env remove of dev or production ends with a non-zero exit code, whatever
\* the force flag and the project's state, and leaves the tree (environment
\* directories and project record) as it was.
C1_CoreRemoveFails ==
    [][(last'.cmd = "env remove" /\ last'.env \in {"dev", "production"})
         => (last'.code # 0 /\ projects_dir' = projects_dir /\ kube' = kube)]_vars

\* a listed production environment whose removal was asked for and refused
C1_Witness ==
    /\ last.cmd = "env remove" /\ last.env = "production"
    /\ last.final = "Cannot remove core environment"
    /\ "production" \in Config_list_environments(projects_dir, last.project)

\* C2: env add of a name that list_environments already reports ends with a
\* non-zero exit code and changes nothing on disk: no directory, no template
\* file, no rewrite of config.yaml.
C2_AddExistingFails ==
    [][(last'.cmd = "env add" /\ last'.env \in Config_list_environments(projects_dir, last'.project))
         => (last'.code # 0 /\ projects_dir' = projects_dir /\ kube' = kube)]_vars

\* an add refused for a listed environment the record does not know
C2_Witness ==
    /\ last.cmd = "env add" /\ last.final = "already exists"
    /\ last.env \in Config_list_environments(projects_dir, last.project)
    /\ ~environment_exists_in_record(projects_dir, last.project, last.env)

\* C3: destroy env on a listed environment without terraform.tfstate returns
\* 0, runs no terraform command and changes no file.
C3_NothingDeployedIsNoOp ==
    [][(/\ last'.cmd = "destroy env"
        /\ last'.project \in Config_list_projects(projects_dir)
        /\ last'.env \in Config_list_environments(projects_dir, last'.project)
        /\ ~has_state(projects_dir, last'.project, last'.env))
         => (last'.code = 0 /\ last'.calls = NoCalls
             /\ projects_dir' = projects_dir /\ kube' = kube)]_vars

\* the no-op on an environment terraform was initialised in, but which holds no state
C3_Witness ==
    /\ last.cmd = "destroy env" /\ last.final = "No infrastructure deployed"
    /\ last.env \in Config_list_environments(projects_dir, last.project)
    /\ ".terraform" \in FilesOf(projects_dir, last.project, last.env)

\* C4: a confirmed destroy project runs terraform destroy exactly once for
\* each listed environment with a state file and never for any other, however
\* the individual runs end.
C4_DestroyEachOnce ==
    [][(last'.cmd = "destroy project" /\ last'.final = "Project infrastructure destroyed")
         => \A e \in EnvNames :
              RanDestroyCalls(last'.calls, e) =
                 IF e \in Config_list_environments(projects_dir, last'.project)
                    /\ has_state(projects_dir, last'.project, e)
                 THEN 1 ELSE 0]_vars

\* a run whose first destroy failed and which went on to a second one, with
\* a third environment skipped
C4_Witness ==
    /\ last.cmd = "destroy project"
    /\ Len(last.calls) = 2
    /\ last.calls[1].outcome # "ok"
    /\ \E i \in 1..Len(last.shown) : last.shown[i][2] = "skipped"

\* C5: when a destroy fails inside destroy project, the end-of-run outcome
\* (exit code and closing message) differs from that of a run in which every
\* environment was destroyed.
C5_FailuresReported ==
    (last.cmd = "destroy project" /\ \E i \in 1..Len(last.shown) : last.shown[i][2] = "failed")
        => (last.code # 0 \/ last.final # "Project infrastructure destroyed")


AppliedOk(calls) == \E i \in 1..Len(calls) : calls[i].op = "apply" /\ calls[i].outcome = "ok"
Destroyed(log) == {log[i][1] : i \in {j \in 1..Len(log) : log[j][2] = "destroyed"}}

\* C6: after a successful apply the derived status of the environment is
\* Deployed, and after a successful destroy (destroy env with keep_config left
\* at its default, or destroy project) it is Not deployed again.
C6_DestroyReturnsToUndeployed ==
    /\ (last.cmd \in {"deploy infra", "env add"} /\ AppliedOk(last.calls))
          => deployed_status(projects_dir, last.project, last.env) = "Deployed"
    /\ (last.cmd = "destroy env" /\ last.final = "Infrastructure destroyed" /\ last.keep_config)
          => deployed_status(projects_dir, last.project, last.env) = "Not deployed"
    /\ (last.cmd = "destroy project")
          => \A e \in Destroyed(last.shown) :
                deployed_status(projects_dir, last.project, e) = "Not deployed"

StateFilePresent(tree, p, e) ==
    /\ tree[p].exists
    /\ e \in DOMAIN tree[p].entries
    /\ "terraform.tfstate" \in tree[p].entries[e].files

\* C7: the deployment status a command shows or acts on is decided by the
\* presence of terraform.tfstate in the environment directory when the command
\* runs, and by nothing else; a state file that appears or disappears outside
\* the tool changes no other file.
C7_StatusDerivedFromStateFile ==
    [][/\ (last'.cmd \in {"env list", "env info", "status project", "status infra", "env remove"})
            => \A e \in DOMAIN last'.shown :
                  last'.shown[e].status =
                     IF StateFilePresent(projects_dir, last'.project, e)
                     THEN "Deployed" ELSE "Not deployed"
       /\ (/\ last'.cmd = "destroy env"
           /\ last'.project \in Config_list_projects(projects_dir)
           /\ last'.env \in Config_list_environments(projects_dir, last'.project))
            => ((last'.final = "No infrastructure deployed")
                   <=> ~StateFilePresent(projects_dir, last'.project, last'.env))
       /\ (last'.cmd = "destroy project")
            => \A i \in 1..Len(last'.shown) :
                  (last'.shown[i][2] = "skipped")
                     <=> ~StateFilePresent(projects_dir, last'.project, last'.shown[i][1])
       /\ (last'.cmd = "outside")
            => /\ kube' = kube
               /\ \A n \in DOMAIN projects_dir[last'.project].entries :
                     n # last'.env =>
                        projects_dir'[last'.project].entries[n] = projects_dir[last'.project].entries[n]
               /\ StateFilePresent(projects_dir', last'.project, last'.env)
                     <=> ~StateFilePresent(projects_dir, last'.project, last'.env)]_vars

\* status project shows Deployed for an environment terraform never ran in:
\* its state file came from outside
C7_Witness ==
    /\ last.cmd = "status project"
    /\ \E e \in DOMAIN last.shown :
          /\ last.shown[e].status = "Deployed"
          /\ ".terraform" \notin FilesOf(projects_dir, last.project, e)
    /\ \E e \in DOMAIN last.shown : last.shown[e].status = "Not deployed"

RecordEnvironments(tree, p) ==
    LET c == Config_load_project_config(tree, p)
    IN  IF HasKey(c, "environments") THEN DOMAIN c.d["environments"].d ELSE {}

\* C8: Config.list_environments returns no name whose directory lacks main.tf,
\* whatever config.yaml says, and returns every non-hidden sub-directory that
\* holds main.tf.
C8_ListedHaveMarker ==
    (last.cmd = "list_environments")
        => /\ \A n \in last.result :
                 /\ IsDirEntry(projects_dir, last.project, n)
                 /\ "main.tf" \in projects_dir[last.project].entries[n].files
           /\ \A n \in EnvNames \cup HiddenNames :
                 (/\ IsDirEntry(projects_dir, last.project, n)
                  /\ n \notin HiddenNames
                  /\ "main.tf" \in projects_dir[last.project].entries[n].files)
                    => n \in last.result

\* the record names dev, the dev directory has no main.tf, and the listing
\* leaves dev out while reporting staging
C8_Witness ==
    /\ last.cmd = "list_environments"
    /\ "dev" \in RecordEnvironments(projects_dir, last.project)
    /\ IsDirEntry(projects_dir, last.project, "dev")
    /\ "dev" \notin last.result
    /\ "staging" \in last.result

\* C9: save_project_config(name, r) then load_project_config(name) gives r
\* back whatever was stored before, the other projects' directories are
\* untouched, and a project with no config.yaml loads as the empty record.
C9_SaveLoadRoundTrip ==
    [][/\ (last'.cmd = "save_project_config")
            => /\ Config_load_project_config(projects_dir', last'.project) = last'.arg
               /\ \A q \in ApiProjects \ {last'.project} : projects_dir'[q] = projects_dir[q]
       /\ (/\ last.cmd = "save_project_config"
           /\ last'.cmd = "load_project_config"
           /\ last'.project = last.project)
            => last'.result = last.arg
       /\ (last'.cmd = "load_project_config" /\ ~HasEntry(projects_dir, last'.project, "config.yaml"))
            => last'.result = EmptyDict]_vars

\* a record whose name is the string "null" saved over a different, larger
\* record and read back
C9_Witness ==
    /\ last.cmd = "save_project_config"
    /\ last.arg = PyDict([k \in {"name"} |-> Str("null")])
    /\ HasKey(last.result, "environments")
    /\ Config_load_project_config(projects_dir, last.project) = last.arg

WellFormedOutputs(arg) ==
    /\ arg.outcome = "ok"
    /\ arg.stdout.wellformed
    /\ arg.stdout.value.j = "obj"
    /\ \A k \in DOMAIN arg.stdout.value.m :
          /\ arg.stdout.value.m[k].j = "obj"
          /\ "value" \in DOMAIN arg.stdout.value.m[k].m

\* C10: Terraform.get_outputs raises nothing; it returns name -> entry["value"]
\* for well-formed output and the empty mapping when the command fails, the
\* executable is missing, the text is not JSON or an entry has no "value".
C10_GetOutputsNeverRaises ==
    (last.cmd = "get_outputs")
        => /\ last.result.exc = "none"
           /\ last.result.val =
                 IF WellFormedOutputs(last.arg)
                 THEN [k \in DOMAIN last.arg.stdout.value.m |-> last.arg.stdout.value.m[k].m["value"]]
                 ELSE EmptyMap

\* the command succeeded and printed JSON in which one entry has a value and
\* another has none: nothing is returned
C10_Witness ==
    /\ last.cmd = "get_outputs"
    /\ last.arg.outcome = "ok" /\ last.arg.stdout.wellformed
    /\ last.arg.stdout.value.j = "obj"
    /\ \A k \in DOMAIN last.arg.stdout.value.m : last.arg.stdout.value.m[k].j = "obj"
    /\ \E k \in DOMAIN last.arg.stdout.value.m : "value" \in DOMAIN last.arg.stdout.value.m[k].m
    /\ \E k \in DOMAIN last.arg.stdout.value.m : "value" \notin DOMAIN last.arg.stdout.value.m[k].m
    /\ last.result = [exc |-> "none", val |-> EmptyMap]

RecordDomains(tree, p) ==
    LET c == Config_load_project_config(tree, p)
    IN  IF HasKey(c, "domains") THEN DOMAIN c.d["domains"].d ELSE {}

\* C11: every environment the project record names has its directory on
\* disk, after every command, the failed and the cancelled ones included.
C11_RecordEnvsHaveDirs ==
    \A p \in ProjectNames :
       \A e \in RecordEnvironments(projects_dir, p) : IsDirEntry(projects_dir, p, e)

\* C12: the record's domains mapping has a key for every key of its
\* environments mapping, after every command.
C12_DomainsCoverEnvironments ==
    \A p \in ProjectNames :
       RecordEnvironments(projects_dir, p) \subseteq RecordDomains(projects_dir, p)

\* staging was added, with a domain of its own, next to dev and production
C12_Witness ==
    /\ last.cmd = "env add" /\ last.final = "Environment created"
    /\ RecordEnvironments(projects_dir, last.project) = {"dev", "production", "staging"}
    /\ RecordDomains(projects_dir, last.project) = {"dev", "production", "staging"}

EnvEntry(branch, profile) ==
    PyDict([f \in {"branch", "profile"} |-> IF f = "branch" THEN branch ELSE profile])
OthersUnchanged(old, new, k) ==
    /\ DOMAIN new.d \ {k} = DOMAIN old.d \ {k}
    /\ \A j \in DOMAIN old.d \ {k} : new.d[j] = old.d[j]

\* C13: an env add that ends with "Environment created" leaves
\* list_environments as it was plus the new name, stores
\* environments[name] = {branch, profile: size} and domains[name] = domain
\* with the values it printed, and changes no other entry of the record and
\* no other entry of the project directory.
C13_AddCreatesExactlyOne ==
    [][(last'.cmd = "env add" /\ last'.final = "Environment created")
         => LET p == last'.project
                e == last'.env
                a == last'.shown[e]
                old == Config_load_project_config(projects_dir, p)
                new == Config_load_project_config(projects_dir', p)
            IN  /\ Config_list_environments(projects_dir', p)
                      = Config_list_environments(projects_dir, p) \cup {e}
                /\ new.d["environments"].d[e] = EnvEntry(a.branch, Str(a.size))
                /\ new.d["domains"].d[e] = a.domain
                /\ DOMAIN new.d = DOMAIN old.d \cup {"environments", "domains"}
                /\ \A k \in DOMAIN old.d \ {"environments", "domains"} : new.d[k] = old.d[k]
                /\ OthersUnchanged(Get(old, "environments", EmptyDict), new.d["environments"], e)
                /\ OthersUnchanged(Get(old, "domains", EmptyDict), new.d["domains"], e)
                /\ DOMAIN projects_dir'[p].entries = DOMAIN projects_dir[p].entries \cup {e}
                /\ \A n \in DOMAIN projects_dir[p].entries \ {e, "config.yaml"} :
                      projects_dir'[p].entries[n] = projects_dir[p].entries[n]]_vars

\* staging created with --branch and --domain given and --deploy, the
\* deployment failing at its first step
C13_Witness ==
    /\ last.cmd = "env add" /\ last.final = "Environment created"
    /\ last.shown[last.env].branch = Str("release")
    /\ Len(last.calls) = 1 /\ last.calls[1].outcome # "ok"
    /\ last.env \in Config_list_environments(projects_dir, last.project)
    /\ "dev" \in RecordEnvironments(projects_dir, last.project)

VisibleDirs(tree, p) ==
    {n \in DOMAIN tree[p].entries : tree[p].entries[n].is_dir /\ ~startswith_dot(n)}

\* C14: an init of a project that did not exist, run to "Setup Complete" by
\* either variant of the command, leaves exactly the environment directories
\* dev and production, both listed, and a record with
\* environments = {dev: {develop, small}, production: {main, large}} and a
\* domain for each.
C14_InitCreatesDevAndProduction ==
    [][(/\ last'.cmd \in {"init", "init project"}
        /\ last'.final = "Setup Complete"
        /\ ~projects_dir[last'.project].exists)
         => LET p == last'.project
                new == Config_load_project_config(projects_dir', p)
            IN  /\ VisibleDirs(projects_dir', p) = {"dev", "production"}
                /\ Config_list_environments(projects_dir', p) = {"dev", "production"}
                /\ new.d["environments"] =
                      PyDict([e \in {"dev", "production"} |->
                                IF e = "dev" THEN EnvEntry(Str("develop"), Str("small"))
                                ELSE EnvEntry(Str("main"), Str("large"))])
                /\ DOMAIN new.d["domains"].d = {"dev", "production"}]_vars

\* a first init that deployed dev on the way and saved its kubeconfig
C14_Witness ==
    /\ last.cmd = "init project" /\ last.final = "Setup Complete"
    /\ ncmd = 1
    /\ <<last.project, "dev">> \in kube
    /\ Config_list_environments(projects_dir, last.project) = {"dev", "production"}

\* C15: an env remove that ends with "removed" leaves no directory for the
\* environment, a listing without it, and a record whose environments and
\* domains mappings lack it and are otherwise as they were.
C15_RemoveDeletesDirAndEntries ==
    [][(last'.cmd = "env remove" /\ last'.final = "removed")
         => LET p == last'.project
                e == last'.env
                old == Config_load_project_config(projects_dir, p)
                new == Config_load_project_config(projects_dir', p)
            IN  /\ ~HasEntry(projects_dir', p, e)
                /\ e \notin Config_list_environments(projects_dir', p)
                /\ e \notin RecordEnvironments(projects_dir', p)
                /\ e \notin RecordDomains(projects_dir', p)
                /\ DOMAIN new.d = DOMAIN old.d
                /\ \A k \in DOMAIN old.d :
                      IF k \in {"environments", "domains"}
                      THEN /\ DOMAIN new.d[k].d = DOMAIN old.d[k].d \ {e}
                           /\ \A x \in DOMAIN new.d[k].d : new.d[k].d[x] = old.d[k].d[x]
                      ELSE new.d[k] = old.d[k]]_vars

\* staging, never deployed, removed from a project that keeps dev and production
C15_Witness ==
    /\ last.cmd = "env remove" /\ last.final = "removed"
    /\ last.shown[last.env].status = "Not deployed"
    /\ ~HasEntry(projects_dir, last.project, last.env)
    /\ RecordEnvironments(projects_dir, last.project) = {"dev", "production"}
    /\ RecordDomains(projects_dir, last.project) = {"dev", "production"}

\* C16: env remove runs no terraform command; for a listed, non-core
\* environment that holds terraform.tfstate it removes the directory, state
\* file included, exactly when --force was passed or the operator said yes,
\* and is cancelled otherwise.
C16_RemoveNeverRunsTerraform ==
    [][(last'.cmd = "env remove")
         => /\ last'.calls = NoCalls
            /\ (/\ last'.env \in Config_list_environments(projects_dir, last'.project)
                /\ ~(last'.env \in {"dev", "production"})
                /\ StateFilePresent(projects_dir, last'.project, last'.env))
                 => /\ last'.final = (IF last'.input.flag \/ last'.input.yes
                                      THEN "removed" ELSE "cancelled")
                    /\ last'.code = 0
                    /\ (last'.final = "removed")
                          => ~HasEntry(projects_dir', last'.project, last'.env)
                    /\ (last'.final = "cancelled") => projects_dir' = projects_dir]_vars

\* a deployed staging removed without --force, on the operator's yes
C16_Witness ==
    /\ last.cmd = "env remove" /\ last.final = "removed"
    /\ last.shown[last.env].status = "Deployed"
    /\ ~last.input.flag /\ last.input.yes
    /\ ~HasEntry(projects_dir, last.project, last.env)

\* C17: Terraform.run raises TerraformError when terraform exits non-zero
\* and when the executable is not found, and raises nothing else.
C17_RunRaisesOnlyTerraformError ==
    (last.cmd = "run")
        => last.result = (IF last.arg.outcome = "ok" THEN "none" ELSE "TerraformError")

WorkSteps == {"init", "validate", "plan", "plan -out", "apply", "destroy"}
SuccessMessages == {"Infrastructure deployed", "Configuration is valid", "plan", "Plan saved",
                    "Infrastructure destroyed", "Environment created"}

\* C18: in deploy infra, deploy validate, deploy plan, destroy env and env add
\* --deploy, a terraform step (init, validate, plan, apply, destroy) that
\* fails ends the command with a non-zero exit code and without its success
\* message.
C18_StepFailureIsFatal ==
    (/\ last.cmd \in {"deploy infra", "deploy validate", "deploy plan", "destroy env", "env add"}
     /\ \E i \in 1..Len(last.calls) :
           last.calls[i].op \in WorkSteps /\ last.calls[i].outcome # "ok")
        => (last.code # 0 /\ last.final \notin SuccessMessages)

\* C19: after a destroy that succeeded for an environment, by destroy env or
\* inside destroy project, there is no kubeconfig file for that environment.
C19_DestroyRemovesKubeconfig ==
    /\ (last.cmd = "destroy env" /\ last.final = "Infrastructure destroyed")
          => <<last.project, last.env>> \notin kube
    /\ (last.cmd = "destroy project")
          => \A e \in Destroyed(last.shown) : <<last.project, e>> \notin kube

\* C20: destroy env of a deployed production without --auto-approve runs
\* terraform destroy only when the operator typed exactly "destroy production";
\* any other text ends the command with exit code 0, no terraform call and
\* nothing changed.  With --auto-approve nothing is asked and the destroy runs.
C20_ProductionNeedsExactPhrase ==
    [][(/\ last'.cmd = "destroy env" /\ last'.env = "production"
        /\ last'.project \in Config_list_projects(projects_dir)
        /\ "production" \in Config_list_environments(projects_dir, last'.project)
        /\ StateFilePresent(projects_dir, last'.project, "production"))
         => IF last'.input.flag
            THEN /\ last'.input.typed = ""
                 /\ RanDestroyCalls(last'.calls, "production") = 1
            ELSE IF last'.input.typed = "destroy production"
            THEN RanDestroyCalls(last'.calls, "production") = 1
            ELSE /\ last'.code = 0 /\ last'.final = "Cancelled"
                 /\ last'.calls = NoCalls
                 /\ projects_dir' = projects_dir /\ kube' = kube]_vars

\* the operator typed "production" and nothing was destroyed
C20_Witness ==
    /\ last.cmd = "destroy env" /\ last.env = "production"
    /\ last.final = "Cancelled"
    /\ ~last.input.flag /\ last.input.typed = "production"
    /\ StateFilePresent(projects_dir, last.project, "production")

\* C22: env add with a size other than small, medium, large ends with a
\* non-zero exit code, and so does env add on a project list_projects does
\* not return; in both cases the tree (directories, record) and the
\* kubeconfig files are what they were.
C22_AddRejectsBeforeWriting ==
    [][(/\ last'.cmd = "env add"
        /\ \/ last'.size \notin {"small", "medium", "large"}
           \/ last'.project \notin Config_list_projects(projects_dir))
         => /\ last'.code # 0
            /\ projects_dir' = projects_dir
            /\ kube' = kube]_vars

\* size "huge" for a new environment of an existing project: refused, no directory
C22_Witness ==
    /\ last.cmd = "env add" /\ last.size = "huge"
    /\ last.final = "Invalid size" /\ last.code = 1
    /\ last.project \in Config_list_projects(projects_dir)
    /\ ~HasEntry(projects_dir, last.project, last.env)

StepOps(calls) == [i \in 1..Len(calls) |-> calls[i].op]
IsPrefix(s, t) == Len(s) =< Len(t) /\ \A i \in 1..Len(s) : s[i] = t[i]

\* C24: in deploy infra and env add --deploy the terraform steps are a prefix
\* of init, plan, apply (then the read of the outputs); apply runs only as the
\* third step, after init and plan both ended well, and only when
\* --auto-approve was given or the operator answered yes; a kubeconfig file
\* appears only in a command whose apply ended well.
C24_ApplyAfterInitPlanAndConsent ==
    [][(last'.cmd \in {"deploy infra", "env add"})
         => /\ IsPrefix(StepOps(last'.calls), <<"init", "plan", "apply", "output">>)
            /\ \A i \in 1..Len(last'.calls) :
                  (last'.calls[i].op = "apply")
                     => /\ i = 3
                        /\ last'.calls[1] = Call("init", last'.env, "ok")
                        /\ last'.calls[2] = Call("plan", last'.env, "ok")
                        /\ last'.input.flag \/ last'.input.yes
            /\ (kube' # kube)
                  => /\ kube' = kube \cup {<<last'.project, last'.env>>}
                     /\ last'.calls[3] = Call("apply", last'.env, "ok")]_vars

\* deploy infra without --auto-approve: the operator said yes, apply ended
\* well and the kubeconfig was saved
C24_Witness ==
    /\ last.cmd = "deploy infra"
    /\ ~last.input.flag /\ last.input.yes
    /\ Len(last.calls) = 4 /\ last.calls[3] = Call("apply", last.env, "ok")
    /\ <<last.project, last.env>> \in kube

StepKind(op) == IF op = "plan -out" THEN "plan" ELSE op

\* C25: in deploy infra, deploy plan, deploy validate, destroy env, destroy
\* project and env add, no two calls of the same step (init, validate, plan,
\* apply, destroy) are made for one environment, and no step is called for an
\* environment after a step failed for it.
C25_NoStepRetried ==
    (last.cmd \in {"deploy infra", "deploy plan", "deploy validate",
                   "destroy env", "destroy project", "env add"})
        => \A i, j \in 1..Len(last.calls) :
              (/\ i < j
               /\ last.calls[i].env = last.calls[j].env
               /\ last.calls[i].op \in WorkSteps /\ last.calls[j].op \in WorkSteps)
                 => /\ StepKind(last.calls[i].op) # StepKind(last.calls[j].op)
                    /\ last.calls[i].outcome = "ok"

\* deploy validate: init ended well, validate failed, and that was the end
C25_Witness ==
    /\ last.cmd = "deploy validate"
    /\ last.calls = <<Call("init", last.env, "ok"), Call("validate", last.env, "nonzero")>>
    /\ last.code = 1

DestroyFailed(calls) ==
    \E i \in 1..Len(calls) : calls[i].op = "destroy" /\ calls[i].outcome # "ok"

\* C26: when terraform destroy fails in destroy env the exit code is
\* non-zero, the kubeconfig files are what they were, every state and lock
\* file that was in the environment directory is still there (--keep-config
\* or not), and the project record is unchanged.
C26_FailedDestroyChangesNothing ==
    [][(last'.cmd = "destroy env" /\ DestroyFailed(last'.calls))
         => /\ last'.code # 0
            /\ kube' = kube
            /\ \A f \in {"terraform.tfstate", "terraform.tfstate.backup",
                         ".terraform", ".terraform.lock.hcl"} :
                  (f \in FilesOf(projects_dir, last'.project, last'.env))
                     => (f \in FilesOf(projects_dir', last'.project, last'.env))
            /\ Config_load_project_config(projects_dir', last'.project)
                  = Config_load_project_config(projects_dir, last'.project)]_vars

\* destroy env without keep_config failed: kubeconfig and state are still there
C26_Witness ==
    /\ last.cmd = "destroy env" /\ DestroyFailed(last.calls)
    /\ ~last.keep_config /\ last.code = 1
    /\ <<last.project, last.env>> \in kube
    /\ {"terraform.tfstate", ".terraform", ".terraform.lock.hcl"}
          \subseteq FilesOf(projects_dir, last.project, last.env)

ReadOnlyCommands == {"deploy infra", "deploy validate", "deploy plan",
                     "destroy env", "destroy project", "env list", "env info",
                     "status project", "status infra", "status github", "status list"}

C28_InitReplacesRecord ==
    [][(/\ last'.cmd = "init" /\ last'.final # "cancelled"
        /\ last'.project \in Config_list_projects(projects_dir))
         => /\ RecordEnvironments(projects_dir', last'.project) = {"dev", "production"}
            /\ RecordDomains(projects_dir', last'.project) = {"dev", "production"}
            /\ \A e \in CustomEnvs :
                  /\ HasEntry(projects_dir, last'.project, e)
                        => /\ HasEntry(projects_dir', last'.project, e)
                           /\ projects_dir'[last'.project].entries[e]
                                 = projects_dir[last'.project].entries[e]
                  /\ (e \in Config_list_environments(projects_dir, last'.project))
                        => (e \in Config_list_environments(projects_dir', last'.project))]_vars

\* init ran again on a project with an added environment: that environment
\* is listed and no longer in the record
C28_Witness ==
    /\ last.cmd = "init" /\ last.final = "Setup Complete"
    /\ \E e \in CustomEnvs :
          /\ e \in Config_list_environments(projects_dir, last.project)
          /\ "values.yaml" \in FilesOf(projects_dir, last.project, e)
          /\ e \notin RecordEnvironments(projects_dir, last.project)
    /\ RecordEnvironments(projects_dir, last.project) = {"dev", "production"}

\* C29: env add that got past its checks (project exists, name not listed,
\* valid size) and was confirmed ends with "Environment created", the
\* environment listed and in the record, when no template fails to render.
C29_ConfirmedAddCompletes ==
    (/\ last.cmd = "env add"
     /\ last.final \notin {"Project not found", "already exists", "Invalid size",
                           "cancelled", "TemplateError"})
        => /\ last.code = 0 /\ last.final = "Environment created"
           /\ last.env \in Config_list_environments(projects_dir, last.project)
           /\ last.env \in RecordEnvironments(projects_dir, last.project)

Unrecorded(tree, p, e) ==
    /\ e \in Config_list_environments(tree, p)
    /\ e \notin RecordEnvironments(tree, p)
    /\ e \notin RecordDomains(tree, p)

\* C30: for an environment that is listed (a directory with main.tf) and has
\* no entry in the record, env info ends with exit code 0 and shows N/A for
\* branch, profile and domain; env list ends with exit code 0 and shows the
\* default domain <name>.example.com; status project ends with exit code 0
\* and shows N/A for branch and domain.
C30_ReadersShowPlaceholders ==
    /\ (last.cmd = "env info" /\ Unrecorded(projects_dir, last.project, last.env))
          => /\ last.code = 0
             /\ last.shown[last.env].branch = Str("N/A")
             /\ last.shown[last.env].profile = Str("N/A")
             /\ last.shown[last.env].domain = Str("N/A")
    /\ (last.cmd = "env list" /\ last.project \in Config_list_projects(projects_dir))
          => /\ last.code = 0
             /\ \A e \in EnvNames :
                   Unrecorded(projects_dir, last.project, e)
                      => /\ e \in DOMAIN last.shown
                         /\ last.shown[e].domain = PyStr(<<e, "example", "com">>)
    /\ (last.cmd = "status project" /\ last.project \in Config_list_projects(projects_dir))
          => /\ last.code = 0
             /\ \A e \in EnvNames :
                   Unrecorded(projects_dir, last.project, e)
                      => /\ e \in DOMAIN last.shown
                         /\ last.shown[e].branch = Str("N/A")
                         /\ last.shown[e].domain = Str("N/A")

\* env info of an environment whose directory holds main.tf and which the
\* record does not know
C30_Witness ==
    /\ last.cmd = "env info" /\ last.code = 0
    /\ Unrecorded(projects_dir, last.project, last.env)
    /\ last.shown[last.env].branch = Str("N/A")

\* C23: when a GitHub call of init's secrets step fails (gh auth login, gh
\* secret set), init still ends with exit code 0 and "Setup Complete", the
\* record and both environments in place and QUICK-REFERENCE.md written.
C23_GitHubFailureNotFatal ==
    (/\ last.cmd = "init project"
     /\ "github" \in DOMAIN last.shown
     /\ last.shown["github"] \in {"login failed", "secret failed"})
        => /\ last.code = 0 /\ last.final = "Setup Complete"
           /\ RecordEnvironments(projects_dir, last.project) = {"dev", "production"}
           /\ {"dev", "production"} \subseteq Config_list_environments(projects_dir, last.project)
           /\ HasEntry(projects_dir, last.project, "QUICK-REFERENCE.md")

BothExited == running.procs[1].pc = "done" /\ running.procs[2].pc = "done"
OneAfterTheOther(first, second) ==
    conc_run(conc_run(running.start, Proc(running.procs[first].op, ConcEnvs[first])),
             Proc(running.procs[second].op, ConcEnvs[second]))

\* C21: two commands (env add or env remove) on two different environments
\* of one project, run at the same time, leave the tree (directories and
\* record) that running one and then the other leaves, in one of the two
\* orders.
C21_ConcurrentAsSequential ==
    BothExited
        => \/ projects_dir = OneAfterTheOther(1, 2)
           \/ projects_dir = OneAfterTheOther(2, 1)

====
